---- MODULE Spec2Model ----
(***************************************************************************)
(* Model of the metadata-hub crawler: the tree walk worker process          *)
(* (crawler/treewalk/worker.py) and the 'files' table connection            *)
(* (crawler/database/connectionFiles.py).                                   *)
(*                                                                          *)
(* Spec      : workers racing on the work and command queues, with the      *)
(*             coordinator producing work packages and sending commands.    *)
(* LiveSpec  : the same workers with a fixed set of work packages and weak  *)
(*             fairness for every worker process.                           *)
(* SpecDB    : insert_new_record_files and close called on one connection.  *)
(* SpecDel   : crawls storing rows, check_directory, set_deleted and close  *)
(*             on one connection.                                           *)
(* SpecWork  : _do_work applied to one work package.                        *)
(* SpecSize  : getSize applied to one size string.                          *)
(***************************************************************************)
EXTENDS Integers, Sequences, FiniteSets, TLC

\* ------------------------------------------------------------------------
\* Bounds of the model
\* ------------------------------------------------------------------------
MaxUnits == 2
MaxCmds == 2
UnitSize == 2
MaxCrawl == 3
MaxBatch == 2
MaxRows == 3
MaxDigits == 2
MaxTime == 2

\* The worker processes racing on the two queues.
Workers == {"w1", "w2"}

\* ------------------------------------------------------------------------
\* Worker constants (worker.py:37-39)
\* ------------------------------------------------------------------------
COMMAND_STOP == "stop"
COMMAND_PAUSE == "pause"
COMMAND_UNPAUSE == "unpause"

\* What the coordinator may put on the command queue: the three commands and
\* one value that is none of them.
Commands == {COMMAND_STOP, COMMAND_PAUSE, COMMAND_UNPAUSE, "bogus"}

Units == 1..MaxUnits

VARIABLES
    pc,         \* position of every worker in Worker.run
    workq,      \* work_packages queue (ids of the queued work packages)
    cmdq,       \* command_queue
    closed,     \* closed[w]: the worker's connection pool was closed (closeall)
    drained,    \* drained[w]: the drain loop of _clean_up ended on an empty queue
    pkg,        \* pkg[w]: the package the worker pulled (0: none)
    log,        \* log[w]: the commands run_command dispatched, in order
    polled,     \* polled[w]: the command queue was polled in this iteration
    rlock,      \* the holder of the reader lock of each queue ("free": none)
    got,        \* got[w]: what the get the worker is inside of will return
    fault,      \* fault[w]: how the _do_work the worker just left ended
    produced,   \* number of packages the coordinator has put on workq
    sent,       \* number of commands the coordinator has sent
    processed,  \* processed[u]: number of _do_work calls on package u
    discarded   \* discarded[u]: number of times the drain removed package u

wvars == <<pc, workq, cmdq, closed, drained, pkg, log, polled, rlock, got,
           fault, produced, sent, processed, discarded>>

VARIABLES
    table,      \* committed rows of the 'files' table, in id order
    tx,         \* transaction status of the connection self.con
    batch,      \* insert_values of the latest insert_new_record_files call
    before,     \* the table when the latest call started
    dbResult,   \* how the latest call ended: "none", "ok" or "raised"
    dbTrace,    \* the cursor/connection calls the latest call made
    chk,        \* the latest check_directory call, until an insert or set_deleted
    del         \* the latest call, if it was set_deleted

dbvars == <<table, tx, batch, before, dbResult, dbTrace, chk, del>>

VARIABLES
    unit,       \* a package as _do_work meets it: extractor output, pool state
    workOut,    \* what _do_work did with unit
    size,       \* the argument of getSize, a string of characters
    sizeOut     \* what getSize returned for size

fvars == <<unit, workOut, size, sizeOut>>

vars == <<wvars, dbvars, fvars>>

\* ------------------------------------------------------------------------
\* Worker.run_command (worker.py:89-113): where the worker continues and
\* whether _clean_up was entered.
\* ------------------------------------------------------------------------
run_command(command) ==
    IF command = COMMAND_UNPAUSE
    THEN [next |-> "get_work", cleanup |-> FALSE]
    ELSE IF command = COMMAND_PAUSE
    THEN [next |-> "paused", cleanup |-> FALSE]
    ELSE IF command = COMMAND_STOP
    THEN [next |-> "drain_check", cleanup |-> TRUE]
    ELSE [next |-> "drain_check", cleanup |-> TRUE]

\* Head of the while loop of Worker.run: the command queue poll.
LoopHead == "poll_cmd"

\* ------------------------------------------------------------------------
\* Outcome of _do_work on a package (worker.py:192-211): per file of the
\* extractor output one of
\*   "ok"         record built, hash read, insert succeeded
\*   "skip"       createInsert returned '0' (mandatory field missing)
\*   "hashfail"   open/read of the file raised
\*   "insertfail" insert_new_record raised
\* or the extractor call itself fails before any file is looked at.
\* ------------------------------------------------------------------------
FileOutcomes == {"ok", "skip", "hashfail", "insertfail"}

RECURSIVE SeqsOf(_, _)
SeqsOf(S, n) ==
    IF n = 0 THEN {<<>>}
    ELSE {Append(s, x) : s \in SeqsOf(S, n - 1), x \in S}

RECURSIVE do_work_files(_, _, _, _)
\* The for loop of _do_work over the extractor results, at result i: the
\* positions of the results whose row was inserted, the number of
\* insert_new_record calls made, and the fault that ended the loop
\* ("none": ran to the end).
do_work_files(results, poolClosed, i, acc) ==
    IF i > Len(results)
    THEN [rows |-> acc.rows, calls |-> acc.calls, fault |-> "none"]
    ELSE LET r == results[i] IN
         IF r = "skip" THEN do_work_files(results, poolClosed, i + 1, acc)
         ELSE IF r = "hashfail"
              THEN [rows |-> acc.rows, calls |-> acc.calls, fault |-> "hash"]
         ELSE IF r = "insertfail" \/ poolClosed
              THEN [rows |-> acc.rows, calls |-> acc.calls + 1,
                    fault |-> "insert"]
         ELSE do_work_files(results, poolClosed, i + 1,
                            [rows |-> Append(acc.rows, i),
                             calls |-> acc.calls + 1])

\* What json.load of the extractor output yields: one result per file of
\* the package, nothing when the extractor call fails.
ExtractorResults(extractorOk) ==
    IF extractorOk THEN SeqsOf(FileOutcomes, UnitSize) ELSE {<<>>}

\* The try block of _do_work (worker.py:192-211): rows inserted one by one
\* until the first fault, which the except clause swallows.
do_work(extractorOk, results, poolClosed) ==
    IF ~extractorOk THEN [rows |-> <<>>, calls |-> 0, fault |-> "extractor"]
    ELSE do_work_files(results, poolClosed, 1, [rows |-> <<>>, calls |-> 0])

\* ------------------------------------------------------------------------
\* The extractor results in detail: the keys a result has and whether its
\* file can be read and its row inserted.
\* ------------------------------------------------------------------------
Mandatory == {"Directory", "FileName", "FileType", "FileSize"}

\* createInsert that does not look for FileSize.
createInsert_no_size(exif) ==
    IF \E element \in {"Directory", "FileName", "FileType"} : element \notin exif
    THEN "0" ELSE "values"

\* The validity check of createInsert (worker.py:127-130): '0' when a
\* mandatory key is missing, otherwise the string of values.
createInsert(exif) ==
    IF \E element \in Mandatory : element \notin exif
    THEN "0" ELSE "values"

\* How the loop of _do_work fares with one result (worker.py:197-208).
Outcome(result) ==
    IF createInsert(result.fields) = "0" THEN "skip"
    ELSE IF ~result.readable THEN "hashfail"
    ELSE IF ~result.insertable THEN "insertfail"
    ELSE "ok"

\* Results that differ in what _do_work can see of them.
FileResults ==
    {r \in [fields : SUBSET Mandatory, readable : BOOLEAN,
            insertable : BOOLEAN] :
        /\ r.readable \/ r.insertable
        /\ r.fields = Mandatory \/ (r.readable /\ r.insertable)}

WorkUnits ==
    [extractorOk : {TRUE}, poolClosed : BOOLEAN,
     results : UNION {SeqsOf(FileResults, n) : n \in 0..UnitSize}]
    \cup [extractorOk : {FALSE}, poolClosed : BOOLEAN, results : {<<>>}]

NoUnit == [extractorOk |-> TRUE, poolClosed |-> FALSE, results |-> <<>>]

NoWork == [done |-> FALSE, rows |-> <<>>, calls |-> 0, fault |-> "none"]

\* ------------------------------------------------------------------------
\* Initial state: the coordinator has queued some packages, no command yet.
\* ------------------------------------------------------------------------
WInit(n) ==
    /\ pc = [w \in Workers |-> LoopHead]
    /\ workq = [i \in 1..n |-> i]
    /\ produced = n
    /\ cmdq = <<>>
    /\ closed = [w \in Workers |-> FALSE]
    /\ drained = [w \in Workers |-> FALSE]
    /\ pkg = [w \in Workers |-> 0]
    /\ log = [w \in Workers |-> <<>>]
    /\ polled = [w \in Workers |-> FALSE]
    /\ rlock = [cmd |-> "free", work |-> "free"]
    /\ got = [w \in Workers |-> "none"]
    /\ fault = [w \in Workers |-> "none"]
    /\ sent = 0
    /\ processed = [u \in Units |-> 0]
    /\ discarded = [u \in Units |-> 0]

\* No check_directory call, no set_deleted call.
NoChk ==
    [outcome |-> "none", path |-> "", hashes |-> {}, fetched |-> FALSE,
     ret |-> <<>>]

NoDel ==
    [outcome |-> "none", ids |-> <<>>, accepted |-> FALSE, stamp |-> 0]

\* A fresh connection on an empty table (connectionFiles.py:58-70).
DBInit ==
    /\ table = <<>>
    /\ tx = "idle"
    /\ batch = <<>>
    /\ before = <<>>
    /\ dbResult = "none"
    /\ dbTrace = <<>>
    /\ chk = NoChk
    /\ del = NoDel

NoSize == [n |-> 0, unitName |-> <<>>, text |-> <<>>]

\* Nothing handed to _do_work or getSize.
FInit ==
    /\ unit = NoUnit
    /\ workOut = NoWork
    /\ size = NoSize
    /\ sizeOut = [done |-> FALSE, error |-> "none", neg |-> FALSE,
                  value |-> <<>>]

Init ==
    /\ \E n \in 0..MaxUnits : WInit(n)
    /\ DBInit
    /\ FInit

\* ------------------------------------------------------------------------
\* Coordinator
\* ------------------------------------------------------------------------
Produce ==
    /\ produced < MaxUnits
    /\ produced' = produced + 1
    /\ workq' = Append(workq, produced + 1)
    /\ UNCHANGED <<pc, cmdq, closed, drained, pkg, log, polled, rlock, got,
                   fault, sent, processed, discarded>>
    /\ UNCHANGED <<dbvars, fvars>>

Send ==
    /\ sent < MaxCmds
    /\ \E c \in Commands : cmdq' = Append(cmdq, c)
    /\ sent' = sent + 1
    /\ UNCHANGED <<pc, workq, closed, drained, pkg, log, polled, rlock, got,
                   fault, produced, processed, discarded>>
    /\ UNCHANGED <<dbvars, fvars>>

\* ------------------------------------------------------------------------
\* Worker.run
\* ------------------------------------------------------------------------
\* A command was dequeued: run_command, including closeall of _clean_up.
Dispatch(w, command) ==
    /\ pc' = [pc EXCEPT ![w] = run_command(command).next]
    /\ closed' = [closed EXCEPT ![w] = @ \/ run_command(command).cleanup]
    /\ log' = [log EXCEPT ![w] = Append(@, command)]

\* multiprocessing.Queue.get(False) (worker.py:76, 82, 229) takes the reader
\* lock of the queue without waiting and raises Empty when another process
\* holds it; with the lock it polls the pipe, raises Empty when nothing is
\* there and receives the head otherwise; the lock is released on the way
\* out. Queue.get() (worker.py:103) waits for the lock and, holding it, for
\* an item. A get(False) is two steps: the one up to the poll and receive,
\* and the release with what follows the return; get() is three: taking the
\* lock, the receive, and the release with what follows the return.
Take(q, w) == [rlock EXCEPT ![q] = w]

Release(q) == [rlock EXCEPT ![q] = "free"]

\* command_queue.get(False) at the head of the loop (worker.py:75-76).
PollCommand(w) ==
    /\ pc[w] = "poll_cmd"
    /\ polled' = [polled EXCEPT ![w] = TRUE]
    /\ fault' = [fault EXCEPT ![w] = "none"]
    /\ IF rlock.cmd # "free"
       THEN \* Empty at once: except Empty: pass
            /\ pc' = [pc EXCEPT ![w] = "get_work"]
            /\ UNCHANGED <<cmdq, rlock, got>>
       ELSE /\ rlock' = Take("cmd", w)
            /\ pc' = [pc EXCEPT ![w] = "poll_ret"]
            /\ IF cmdq = <<>>
               THEN /\ got' = [got EXCEPT ![w] = "Empty"]
                    /\ UNCHANGED cmdq
               ELSE /\ got' = [got EXCEPT ![w] = Head(cmdq)]
                    /\ cmdq' = Tail(cmdq)
    /\ UNCHANGED <<workq, closed, drained, pkg, log, produced, sent,
                   processed, discarded>>
    /\ UNCHANGED <<dbvars, fvars>>

\* The return of command_queue.get(False): Empty is passed over, a command
\* goes to run_command (worker.py:76-80).
PollReturn(w) ==
    /\ pc[w] = "poll_ret"
    /\ rlock' = Release("cmd")
    /\ got' = [got EXCEPT ![w] = "none"]
    /\ IF got[w] = "Empty"
       THEN /\ pc' = [pc EXCEPT ![w] = "get_work"]
            /\ UNCHANGED <<closed, log>>
       ELSE Dispatch(w, got[w])
    /\ UNCHANGED <<workq, cmdq, drained, pkg, polled, fault, produced, sent,
                   processed, discarded>>
    /\ UNCHANGED <<dbvars, fvars>>

\* The blocking command_queue.get() of a paused worker takes the reader
\* lock (worker.py:103) and keeps it while it waits for a command.
PausedLock(w) ==
    /\ pc[w] = "paused"
    /\ rlock.cmd = "free"
    /\ rlock' = Take("cmd", w)
    /\ pc' = [pc EXCEPT ![w] = "paused_recv"]
    /\ UNCHANGED <<workq, cmdq, closed, drained, pkg, log, polled, got, fault,
                   produced, sent, processed, discarded>>
    /\ UNCHANGED <<dbvars, fvars>>

\* A paused worker whose get is non-blocking and gives up on Empty.
PausedGet_nonblocking(w) ==
    /\ pc[w] = "paused_recv"
    /\ IF cmdq = <<>>
       THEN /\ rlock' = Release("cmd")
            /\ pc' = [pc EXCEPT ![w] = "get_work"]
            /\ UNCHANGED <<cmdq, got>>
       ELSE /\ cmdq' = Tail(cmdq)
            /\ got' = [got EXCEPT ![w] = Head(cmdq)]
            /\ pc' = [pc EXCEPT ![w] = "paused_ret"]
            /\ UNCHANGED rlock
    /\ UNCHANGED <<workq, closed, drained, pkg, log, polled, fault, produced,
                   sent, processed, discarded>>
    /\ UNCHANGED <<dbvars, fvars>>

\* The blocking command_queue.get() of a paused worker receives a command
\* (worker.py:103); it still holds the reader lock.
PausedGet(w) ==
    /\ pc[w] = "paused_recv"
    /\ cmdq # <<>>
    /\ cmdq' = Tail(cmdq)
    /\ got' = [got EXCEPT ![w] = Head(cmdq)]
    /\ pc' = [pc EXCEPT ![w] = "paused_ret"]
    /\ UNCHANGED <<workq, closed, drained, pkg, log, polled, rlock, fault,
                   produced, sent, processed, discarded>>
    /\ UNCHANGED <<dbvars, fvars>>

\* The return of the blocking command_queue.get(): the lock is released and
\* the command goes to the recursive run_command (worker.py:103-104).
PausedReturn(w) ==
    /\ pc[w] = "paused_ret"
    /\ rlock' = Release("cmd")
    /\ got' = [got EXCEPT ![w] = "none"]
    /\ Dispatch(w, got[w])
    /\ UNCHANGED <<workq, cmdq, drained, pkg, polled, fault, produced, sent,
                   processed, discarded>>
    /\ UNCHANGED <<dbvars, fvars>>

\* The test of the drain loop of _clean_up (worker.py:228); empty() polls
\* the pipe without the lock. On an empty queue _clean_up and run_command
\* return and run breaks out of its loop.
DrainCheck(w) ==
    /\ pc[w] = "drain_check"
    /\ IF workq = <<>>
       THEN /\ pc' = [pc EXCEPT ![w] = "finished"]
            /\ drained' = [drained EXCEPT ![w] = TRUE]
       ELSE /\ pc' = [pc EXCEPT ![w] = "drain_get"]
            /\ UNCHANGED drained
    /\ UNCHANGED <<workq, cmdq, closed, pkg, log, polled, rlock, got, fault,
                   produced, sent, processed, discarded>>
    /\ UNCHANGED <<dbvars, fvars>>

\* work_packages.get(False) in the body of the drain loop (worker.py:229).
\* An Empty raised at once leaves _clean_up and run_command and is caught by
\* run (worker.py:79-80).
DrainGet(w) ==
    /\ pc[w] = "drain_get"
    /\ IF rlock.work # "free"
       THEN /\ pc' = [pc EXCEPT ![w] = "get_work"]
            /\ UNCHANGED <<workq, discarded, rlock, got>>
       ELSE /\ rlock' = Take("work", w)
            /\ pc' = [pc EXCEPT ![w] = "drain_ret"]
            /\ IF workq = <<>>
               THEN /\ got' = [got EXCEPT ![w] = "Empty"]
                    /\ UNCHANGED <<workq, discarded>>
               ELSE /\ got' = [got EXCEPT ![w] = "item"]
                    /\ workq' = Tail(workq)
                    /\ discarded' = [discarded EXCEPT ![Head(workq)] = @ + 1]
    /\ UNCHANGED <<cmdq, closed, drained, pkg, log, polled, fault, produced,
                   sent, processed>>
    /\ UNCHANGED <<dbvars, fvars>>

\* The return of the drain's get: the item is dropped and the loop test
\* follows; Empty leaves _clean_up and run_command and is caught by run
\* (worker.py:79-80).
DrainReturn(w) ==
    /\ pc[w] = "drain_ret"
    /\ rlock' = Release("work")
    /\ got' = [got EXCEPT ![w] = "none"]
    /\ pc' = [pc EXCEPT ![w] =
                  IF got[w] = "Empty" THEN "get_work" ELSE "drain_check"]
    /\ UNCHANGED <<workq, cmdq, closed, drained, pkg, log, polled, fault,
                   produced, sent, processed, discarded>>
    /\ UNCHANGED <<dbvars, fvars>>

\* A worker that waits for work: work_packages.get() blocking.
GetWork_blocking(w) ==
    /\ pc[w] = "get_work"
    /\ rlock.work = "free"
    /\ workq # <<>>
    /\ rlock' = Take("work", w)
    /\ got' = [got EXCEPT ![w] = "item"]
    /\ workq' = Tail(workq)
    /\ pkg' = [pkg EXCEPT ![w] = Head(workq)]
    /\ pc' = [pc EXCEPT ![w] = "work_ret"]
    /\ UNCHANGED <<cmdq, closed, drained, log, polled, fault, produced, sent,
                   processed, discarded>>
    /\ UNCHANGED <<dbvars, fvars>>

\* A worker that reads the head of the queue without removing it.
GetWork_peek(w) ==
    /\ pc[w] = "get_work"
    /\ IF rlock.work # "free"
       THEN /\ pc' = [pc EXCEPT ![w] = "finished"]
            /\ UNCHANGED <<pkg, rlock, got>>
       ELSE /\ rlock' = Take("work", w)
            /\ pc' = [pc EXCEPT ![w] = "work_ret"]
            /\ IF workq = <<>>
               THEN /\ got' = [got EXCEPT ![w] = "Empty"]
                    /\ UNCHANGED pkg
               ELSE /\ got' = [got EXCEPT ![w] = "item"]
                    /\ pkg' = [pkg EXCEPT ![w] = Head(workq)]
    /\ UNCHANGED <<workq, cmdq, closed, drained, log, polled, fault, produced,
                   sent, processed, discarded>>
    /\ UNCHANGED <<dbvars, fvars>>

\* work_packages.get(False) (worker.py:81-82); an Empty raised at once ends
\* the loop (worker.py:83-84).
GetWork(w) ==
    /\ pc[w] = "get_work"
    /\ IF rlock.work # "free"
       THEN /\ pc' = [pc EXCEPT ![w] = "finished"]
            /\ UNCHANGED <<workq, pkg, rlock, got>>
       ELSE /\ rlock' = Take("work", w)
            /\ pc' = [pc EXCEPT ![w] = "work_ret"]
            /\ IF workq = <<>>
               THEN /\ got' = [got EXCEPT ![w] = "Empty"]
                    /\ UNCHANGED <<workq, pkg>>
               ELSE /\ got' = [got EXCEPT ![w] = "item"]
                    /\ workq' = Tail(workq)
                    /\ pkg' = [pkg EXCEPT ![w] = Head(workq)]
    /\ UNCHANGED <<cmdq, closed, drained, log, polled, fault, produced, sent,
                   processed, discarded>>
    /\ UNCHANGED <<dbvars, fvars>>

\* The return of work_packages.get(False): Empty ends the loop, a package
\* goes to _do_work (worker.py:82-85).
GetWorkReturn(w) ==
    /\ pc[w] = "work_ret"
    /\ rlock' = Release("work")
    /\ got' = [got EXCEPT ![w] = "none"]
    /\ pc' = [pc EXCEPT ![w] =
                  IF got[w] = "Empty" THEN "finished" ELSE "do_work"]
    /\ UNCHANGED <<workq, cmdq, closed, drained, pkg, log, polled, fault,
                   produced, sent, processed, discarded>>
    /\ UNCHANGED <<dbvars, fvars>>

\* _do_work without its except clause: a fault ends the worker process.
DoWork_uncaught(w) ==
    /\ pc[w] = "do_work"
    /\ \E extractorOk \in BOOLEAN :
       \E results \in ExtractorResults(extractorOk) :
          fault' = [fault EXCEPT ![w] =
                       do_work(extractorOk, results, closed[w]).fault]
    /\ pc' = [pc EXCEPT ![w] =
                  IF fault'[w] = "none" THEN LoopHead ELSE "finished"]
    /\ processed' = [processed EXCEPT ![pkg[w]] = @ + 1]
    /\ pkg' = [pkg EXCEPT ![w] = 0]
    /\ polled' = [polled EXCEPT ![w] = FALSE]
    /\ UNCHANGED <<workq, cmdq, closed, drained, log, rlock, got, produced,
                   sent, discarded>>
    /\ UNCHANGED <<dbvars, fvars>>

\* _do_work(package) (worker.py:85, 178-211), then the next iteration.
DoWork(w) ==
    /\ pc[w] = "do_work"
    /\ \E extractorOk \in BOOLEAN :
       \E results \in ExtractorResults(extractorOk) :
          fault' = [fault EXCEPT ![w] =
                       do_work(extractorOk, results, closed[w]).fault]
    /\ processed' = [processed EXCEPT ![pkg[w]] = @ + 1]
    /\ pkg' = [pkg EXCEPT ![w] = 0]
    /\ polled' = [polled EXCEPT ![w] = FALSE]
    /\ pc' = [pc EXCEPT ![w] = LoopHead]
    /\ UNCHANGED <<workq, cmdq, closed, drained, log, rlock, got, produced,
                   sent, discarded>>
    /\ UNCHANGED <<dbvars, fvars>>

WorkerStep(w) ==
    \/ PollCommand(w)
    \/ PollReturn(w)
    \/ PausedLock(w)
    \/ PausedGet(w)
    \/ PausedReturn(w)
    \/ DrainCheck(w)
    \/ DrainGet(w)
    \/ DrainReturn(w)
    \/ GetWork(w)
    \/ GetWorkReturn(w)
    \/ DoWork(w)

Next ==
    \/ Produce
    \/ Send
    \/ \E w \in Workers : PollCommand(w)
    \/ \E w \in Workers : PollReturn(w)
    \/ \E w \in Workers : PausedLock(w)
    \/ \E w \in Workers : PausedGet(w)
    \/ \E w \in Workers : PausedReturn(w)
    \/ \E w \in Workers : DrainCheck(w)
    \/ \E w \in Workers : DrainGet(w)
    \/ \E w \in Workers : DrainReturn(w)
    \/ \E w \in Workers : GetWork(w)
    \/ \E w \in Workers : GetWorkReturn(w)
    \/ \E w \in Workers : DoWork(w)

Spec == Init /\ [][Next]_vars

TypeOK ==
    /\ pc \in [Workers -> {"poll_cmd", "poll_ret", "paused", "paused_recv",
                           "paused_ret", "drain_check", "drain_get", "drain_ret",
                           "get_work", "work_ret", "do_work", "finished"}]
    /\ rlock \in [{"cmd", "work"} -> Workers \cup {"free"}]
    /\ got \in [Workers -> Commands \cup {"none", "Empty", "item"}]
    /\ produced \in 0..MaxUnits
    /\ sent \in 0..MaxCmds

\* ------------------------------------------------------------------------
\* DatabaseConnectionTableFiles (connectionFiles.py)
\* ------------------------------------------------------------------------
\* Number of placeholders of the row template of insert_new_record_files.
NumColumns == 13

Hashes == {"hashA", "hashB"}

Dirs == {"/d", "/e"}

\* A tuple of insert_values: its crawl_id and file_hash, its number of
\* elements, and whether the server accepts its values (which matters for
\* a tuple of the right length only).
InsertRows ==
    {r \in [crawl : 1..MaxCrawl, dir : Dirs, hash : Hashes,
            ncols : {NumColumns - 1, NumColumns}, valid : BOOLEAN] :
        r.ncols = NumColumns \/ r.valid}

\* The insert_values of one call: the records of one package of the first
\* crawl.
BatchesOf(n) == SeqsOf({r \in InsertRows : r.dir = "/d" /\ r.crawl = 1}, n)

Batches == UNION {BatchesOf(n) : n \in 0..MaxBatch}

\* The statement text up to and including 'VALUES ' (connectionFiles.py:83-84).
QueryHead == <<[kind |-> "head"], [kind |-> "blank"]>>

\* curs.mogrify of the row template with one tuple, followed by ','
\* (connectionFiles.py:87); it raises unless the tuple has one element per
\* placeholder.
mogrify(insert) ==
    IF insert.ncols = NumColumns
    THEN [ok |-> TRUE,
          text |-> <<[kind |-> "row", crawl |-> insert.crawl,
                      dir |-> insert.dir, hash |-> insert.hash,
                      valid |-> insert.valid],
                     [kind |-> "comma"]>>]
    ELSE [ok |-> FALSE, text |-> <<>>]

RECURSIVE build_query(_, _, _)
\* The loop that appends the rows to the query (connectionFiles.py:86-87);
\* n counts the mogrify calls.
build_query(insert_values, query, n) ==
    IF insert_values = <<>> THEN [ok |-> TRUE, query |-> query, calls |-> n]
    ELSE LET m == mogrify(Head(insert_values)) IN
         IF ~m.ok THEN [ok |-> FALSE, query |-> query, calls |-> n + 1]
         ELSE build_query(Tail(insert_values), query \o m.text, n + 1)

\* query[:-1]
DropLast(query) == SubSeq(query, 1, Len(query) - 1)

RECURSIVE RowList(_)
\* row (',' row)*
RowList(toks) ==
    /\ toks # <<>>
    /\ Head(toks).kind = "row"
    /\ \/ Len(toks) = 1
       \/ /\ Len(toks) >= 3
          /\ toks[2].kind = "comma"
          /\ RowList(SubSeq(toks, 3, Len(toks)))

\* The server accepts the statement text: head, blank, list of rows.
IsStatement(query) ==
    /\ Len(query) >= 3
    /\ query[1].kind = "head"
    /\ query[2].kind = "blank"
    /\ RowList(SubSeq(query, 3, Len(query)))

StatementRows(query) == SelectSeq(query, LAMBDA t : t.kind = "row")

\* curs.execute(query) (connectionFiles.py:90): the statement fails as a
\* whole when the connection is in a failed transaction, the text is not a
\* statement, or a row is rejected.
execute(query, txs) ==
    IF /\ txs # "failed"
       /\ IsStatement(query)
       /\ \A i \in 1..Len(StatementRows(query)) : StatementRows(query)[i].valid
    THEN [ok |-> TRUE, rows |-> StatementRows(query)]
    ELSE [ok |-> FALSE, rows |-> <<>>]

\* The rows as the table stores them; id is the surrogate key.
Stored(tbl, rows) ==
    [i \in 1..Len(rows) |->
        [id |-> Len(tbl) + i, crawl |-> rows[i].crawl, dir |-> rows[i].dir,
         hash |-> rows[i].hash, deleted |-> FALSE, time |-> 0]]

Repeat(x, n) == [i \in 1..n |-> x]

RECURSIVE GoodPrefix(_)
GoodPrefix(rows) ==
    IF rows = <<>> \/ Head(rows).ncols # NumColumns \/ ~Head(rows).valid
    THEN <<>>
    ELSE <<Head(rows)>> \o GoodPrefix(Tail(rows))

\* An insert that sends and commits the rows one by one.
insert_new_record_files_per_row(insert_values) ==
    /\ Len(table) + Len(insert_values) <= MaxRows
    /\ batch' = insert_values
    /\ before' = table
    /\ chk' = NoChk
    /\ del' = NoDel
    /\ table' = IF tx = "closed" THEN table
                ELSE table \o Stored(table, GoodPrefix(insert_values))
    /\ tx' = IF tx = "closed" THEN tx ELSE "idle"
    /\ dbResult' = IF Len(GoodPrefix(insert_values)) = Len(insert_values)
                      /\ insert_values # <<>> /\ tx # "closed"
                   THEN "ok" ELSE "raised"
    /\ dbTrace' = IF tx = "closed" THEN <<"cursor">>
                  ELSE IF Len(GoodPrefix(insert_values)) = Len(insert_values)
                          /\ insert_values # <<>>
                  THEN <<"cursor", "execute", "close", "commit">>
                  ELSE <<"cursor", "execute", "close", "rollback">>
    /\ UNCHANGED <<wvars, fvars>>

\* insert_new_record_files (connectionFiles.py:73-98).
insert_new_record_files(insert_values) ==
    /\ Len(table) + Len(insert_values) <= MaxRows
    /\ batch' = insert_values
    /\ before' = table
    /\ chk' = NoChk
    /\ del' = NoDel
    /\ LET built == build_query(insert_values, QueryHead, 0)
           done == execute(DropLast(built.query), tx)
           start == <<"cursor">> \o Repeat("mogrify", built.calls)
       IN  IF tx = "closed"
           THEN \* self.con.cursor() raised InterfaceError
                /\ UNCHANGED <<table, tx>>
                /\ dbResult' = "raised"
                /\ dbTrace' = <<"cursor">>
           ELSE IF ~built.ok
           THEN \* mogrify raised, outside the try block
                /\ UNCHANGED <<table, tx>>
                /\ dbResult' = "raised"
                /\ dbTrace' = start
           ELSE IF ~done.ok
           THEN \* except: close, rollback, raise
                /\ UNCHANGED table
                /\ tx' = "idle"
                /\ dbResult' = "raised"
                /\ dbTrace' = start \o <<"execute", "close", "rollback">>
           ELSE /\ table' = table \o Stored(table, done.rows)
                /\ tx' = "idle"
                /\ dbResult' = "ok"
                /\ dbTrace' = start \o <<"execute", "close", "commit">>
    /\ UNCHANGED <<wvars, fvars>>

InsertCall == \E insert_values \in Batches : insert_new_record_files(insert_values)

\* close (connectionFiles.py:100-101): self.con.close(); the connection
\* stays closed, and closing it again is allowed.
close ==
    /\ tx' = "closed"
    /\ before' = table
    /\ batch' = <<>>
    /\ dbResult' = "none"
    /\ dbTrace' = <<"con.close">>
    /\ del' = NoDel
    /\ UNCHANGED <<table, chk>>
    /\ UNCHANGED <<wvars, fvars>>

CloseCall == close

DBStart ==
    /\ WInit(0)
    /\ DBInit
    /\ FInit

NextDB ==
    \/ InsertCall
    \/ CloseCall

SpecDB == DBStart /\ [][NextDB]_vars

\* ------------------------------------------------------------------------
\* check_directory and set_deleted
\* ------------------------------------------------------------------------

\* max() of a non-empty set of crawl ids (connectionFiles.py:129, 132).
Max(S) == CHOOSE m \in S : \A x \in S : x <= m

\* The SELECT ... WHERE dir_path = path (connectionFiles.py:116-124): the
\* stored rows of the directory, in table order.
fetchall(tbl, path) == SelectSeq(tbl, LAMBDA x : x.dir = path)

\* The crawl ids left as a baseline when the current crawl is kept in.
id_set_keep_current(get) == {get[i].crawl : i \in 1..Len(get)}

\* id_set after id_set.remove(max(id_set)) (connectionFiles.py:128-129);
\* only evaluated on a non-empty result.
id_set(get) ==
    {get[i].crawl : i \in 1..Len(get)}
        \ {Max({get[i].crawl : i \in 1..Len(get)})}

\* A candidate list filtered by absence from current_hashes.
file_ids_absent(get, recent_crawl, current_hashes) ==
    LET keep == SelectSeq(get, LAMBDA x : /\ x.crawl = recent_crawl
                                          /\ x.hash \notin current_hashes)
    IN  [i \in 1..Len(keep) |-> keep[i].id]

\* file_ids (connectionFiles.py:134).
file_ids(get, recent_crawl, current_hashes) ==
    LET keep == SelectSeq(get, LAMBDA x : /\ x.crawl = recent_crawl
                                          /\ x.hash \in current_hashes)
    IN  [i \in 1..Len(keep) |-> keep[i].id]

\* check_directory (connectionFiles.py:104-135).  serverOk is whether the
\* server answers the query; max() of the empty set raises ValueError.
check_directory(path, current_hashes, serverOk) ==
    /\ before' = table
    /\ batch' = <<>>
    /\ dbResult' = "none"
    /\ del' = NoDel
    /\ UNCHANGED table
    /\ LET get == fetchall(table, path)
       IN  IF tx = "closed"
           THEN \* self.con.cursor() raised InterfaceError
                /\ UNCHANGED tx
                /\ dbTrace' = <<"cursor">>
                /\ chk' = [outcome |-> "raised", path |-> path,
                           hashes |-> current_hashes, fetched |-> FALSE,
                           ret |-> <<>>]
           ELSE IF tx = "failed" \/ ~serverOk
           THEN \* except: return [], the cursor and the transaction left open
                /\ tx' = "failed"
                /\ dbTrace' = <<"cursor", "mogrify", "execute">>
                /\ chk' = [outcome |-> "returned", path |-> path,
                           hashes |-> current_hashes, fetched |-> FALSE,
                           ret |-> <<>>]
           ELSE /\ tx' = "idle"
                /\ dbTrace' = <<"cursor", "mogrify", "execute", "fetchall",
                                "close", "commit">>
                /\ chk' =
                     IF get = <<>>
                     THEN [outcome |-> "raised", path |-> path,
                           hashes |-> current_hashes, fetched |-> TRUE,
                           ret |-> <<>>]
                     ELSE [outcome |-> "returned", path |-> path,
                           hashes |-> current_hashes, fetched |-> TRUE,
                           ret |-> IF id_set(get) = {}
                                   THEN <<>>
                                   ELSE file_ids(get, Max(id_set(get)),
                                                 current_hashes)]
    /\ UNCHANGED <<wvars, fvars>>

\* datetime.now() (connectionFiles.py:149): later than every stored time.
now(tbl) == 1 + Max({0} \cup {tbl[i].time : i \in 1..Len(tbl)})

Elems(s) == {s[i] : i \in 1..Len(s)}

\* UPDATE files SET deleted = 'True', deleted_time = now WHERE id IN ids
\* (connectionFiles.py:146-150).
update(tbl, ids, stamp) ==
    [i \in 1..Len(tbl) |->
        IF tbl[i].id \in Elems(ids)
        THEN [tbl[i] EXCEPT !.deleted = TRUE, !.time = stamp]
        ELSE tbl[i]]

\* set_deleted (connectionFiles.py:137-162).  serverOk is whether the server
\* accepts the update.
set_deleted(ids, serverOk) ==
    /\ now(table) <= MaxTime
    /\ before' = table
    /\ batch' = <<>>
    /\ dbResult' = "none"
    /\ chk' = NoChk
    /\ IF Len(ids) < 1
       THEN \* return
            /\ UNCHANGED <<table, tx>>
            /\ dbTrace' = <<>>
            /\ del' = [outcome |-> "returned", ids |-> ids,
                       accepted |-> FALSE, stamp |-> 0]
       ELSE IF tx = "closed"
       THEN \* self.con.cursor() raised InterfaceError
            /\ UNCHANGED <<table, tx>>
            /\ dbTrace' = <<"cursor">>
            /\ del' = [outcome |-> "raised", ids |-> ids,
                       accepted |-> FALSE, stamp |-> 0]
       ELSE IF tx = "failed" \/ ~serverOk
       THEN \* except: print, log, close, rollback
            /\ UNCHANGED table
            /\ tx' = "idle"
            /\ dbTrace' = <<"cursor", "mogrify", "execute", "close",
                            "rollback">>
            /\ del' = [outcome |-> "returned", ids |-> ids,
                       accepted |-> FALSE, stamp |-> 0]
       ELSE /\ table' = update(table, ids, now(table))
            /\ tx' = "idle"
            /\ dbTrace' = <<"cursor", "mogrify", "execute", "close",
                            "commit">>
            /\ del' = [outcome |-> "returned", ids |-> ids,
                       accepted |-> TRUE, stamp |-> now(table)]
    /\ UNCHANGED <<wvars, fvars>>

\* What a crawl stores for one file: one complete, accepted row.
CrawlBatches ==
    {<<r>> : r \in {x \in InsertRows : x.ncols = NumColumns /\ x.valid}}

\* A crawl stores a file of a directory: the row carries the id of the
\* running crawl or of the one started next.
CrawlInsert ==
    \E insert_values \in CrawlBatches :
        /\ \A i \in 1..Len(table) : table[i].crawl <= insert_values[1].crawl
        /\ insert_values[1].crawl
              <= 1 + Max({0} \cup {table[i].crawl : i \in 1..Len(table)})
        /\ insert_new_record_files(insert_values)

CheckCall ==
    \E path \in Dirs, current_hashes \in SUBSET Hashes, serverOk \in BOOLEAN :
        check_directory(path, current_hashes, serverOk)

\* The candidates of the latest check are handed to set_deleted.
DeleteCall ==
    \E serverOk \in BOOLEAN :
        /\ chk.outcome = "returned"
        /\ set_deleted(chk.ret, serverOk)

NextDel ==
    \/ CrawlInsert
    \/ CheckCall
    \/ DeleteCall
    \/ CloseCall

SpecDel == DBStart /\ [][NextDel]_vars

\* ------------------------------------------------------------------------
\* _do_work applied to one package
\* ------------------------------------------------------------------------
WorkStart ==
    /\ WInit(0)
    /\ DBInit
    /\ unit \in WorkUnits
    /\ workOut = NoWork
    /\ size = NoSize
    /\ sizeOut = [done |-> FALSE, error |-> "none", neg |-> FALSE,
                  value |-> <<>>]

\* _do_work(package) on the extractor output of unit (worker.py:178-211).
ApplyDoWork ==
    /\ ~workOut.done
    /\ LET out == do_work(unit.extractorOk,
                          [i \in 1..Len(unit.results) |->
                              Outcome(unit.results[i])],
                          unit.poolClosed)
       IN  workOut' = [done |-> TRUE, rows |-> out.rows,
                       calls |-> out.calls, fault |-> out.fault]
    /\ UNCHANGED <<unit, size, sizeOut>>
    /\ UNCHANGED <<wvars, dbvars>>

NextWork ==
    \/ ApplyDoWork

SpecWork == WorkStart /\ [][NextWork]_vars

\* ------------------------------------------------------------------------
\* Worker.getSize (worker.py:154-175). A string is the sequence of the code
\* points of its characters; the byte count can exceed the machine integers
\* of the checker, so it is kept as a number in base 1000, least significant
\* limb first, without leading zero limbs (zero is the empty sequence).
\* ------------------------------------------------------------------------
\* ord() of the characters the strings below are written with.
Letters ==
    <<" ", "+", "-", ".", "_", "0", "1", "2", "3", "4", "5", "6", "7", "8",
      "9", "B", "K", "M", "b", "g", "k", "m", "t", "x">>

CodePoints ==
    <<32, 43, 45, 46, 95, 48, 49, 50, 51, 52, 53, 54, 55, 56,
      57, 66, 75, 77, 98, 103, 107, 109, 116, 120>>

ord(c) == CodePoints[CHOOSE i \in 1..Len(Letters) : Letters[i] = c]

\* The string written with the given characters.
Text(chars) == [i \in 1..Len(chars) |-> ord(chars[i])]

RECURSIVE split(_, _, _)
\* str.split(' '): the fields between single blanks.
split(s, cur, acc) ==
    IF s = <<>> THEN Append(acc, cur)
    ELSE IF Head(s) = ord(" ") THEN split(Tail(s), <<>>, Append(acc, cur))
    ELSE split(Tail(s), Append(cur, Head(s)), acc)

RECURSIVE py_str(_)
\* str(int).
py_str(n) ==
    IF n < 0 THEN <<ord("-")>> \o py_str(0 - n)
    ELSE IF n < 10 THEN <<ord("0") + n>>
    ELSE Append(py_str(n \div 10), ord("0") + (n % 10))

Base == 1000

RECURSIVE ToBig(_)
ToBig(n) == IF n = 0 THEN <<>> ELSE <<n % Base>> \o ToBig(n \div Base)

RECURSIVE Strip(_)
Strip(a) ==
    IF a = <<>> \/ a[Len(a)] # 0 THEN a ELSE Strip(SubSeq(a, 1, Len(a) - 1))

RECURSIVE BigMulLimb(_, _, _)
BigMulLimb(a, d, carry) ==
    IF a = <<>> THEN ToBig(carry)
    ELSE <<(Head(a) * d + carry) % Base>>
         \o BigMulLimb(Tail(a), d, (Head(a) * d + carry) \div Base)

RECURSIVE BigAdd(_, _, _)
BigAdd(a, b, carry) ==
    IF a = <<>> /\ b = <<>> THEN ToBig(carry)
    ELSE LET x == IF a = <<>> THEN 0 ELSE Head(a)
             y == IF b = <<>> THEN 0 ELSE Head(b)
         IN  <<(x + y + carry) % Base>>
             \o BigAdd(IF a = <<>> THEN a ELSE Tail(a),
                       IF b = <<>> THEN b ELSE Tail(b),
                       (x + y + carry) \div Base)

RECURSIVE BigMul(_, _)
\* The product of two numbers.
BigMul(a, b) ==
    IF b = <<>> THEN <<>>
    ELSE Strip(BigAdd(BigMulLimb(a, Head(b), 0), <<0>> \o BigMul(a, Tail(b)), 0))

\* Multipliers of a getSize that counts in powers of 1024.
multipl_binary(unitName) ==
    IF unitName[1] = ord("k") THEN ToBig(1024)
    ELSE IF unitName[1] = ord("m") THEN ToBig(1048576)
    ELSE IF unitName[1] = ord("g") THEN ToBig(1073741824)
    ELSE IF unitName[1] = ord("t") THEN BigMul(ToBig(1048576), ToBig(1048576))
    ELSE ToBig(1)

\* The multiplier getSize picks by the first character of the unit
\* (worker.py:166-174); 1000000000000 is written in limbs.
multipl(unitName) ==
    IF unitName[1] = ord("k") THEN ToBig(1000)
    ELSE IF unitName[1] = ord("m") THEN ToBig(1000000)
    ELSE IF unitName[1] = ord("g") THEN ToBig(1000000000)
    ELSE IF unitName[1] = ord("t") THEN <<0, 0, 0, 0, 1>>
    ELSE ToBig(1)

\* The characters int() strips from both ends of the string: tab, line
\* feed, vertical tab, form feed, carriage return and space, and the
\* characters beyond ASCII that str.isspace() holds for.
Whitespace ==
    {9, 10, 11, 12, 13, 32, 133, 160, 5760} \cup 8192..8202
        \cup {8232, 8233, 8239, 8287, 12288}

RECURSIVE lstrip(_)
lstrip(s) ==
    IF s # <<>> /\ Head(s) \in Whitespace THEN lstrip(Tail(s)) ELSE s

RECURSIVE rstrip(_)
rstrip(s) ==
    IF s # <<>> /\ s[Len(s)] \in Whitespace
    THEN rstrip(SubSeq(s, 1, Len(s) - 1))
    ELSE s

\* The code points of the digit zero of every decimal digit range of the
\* Unicode database of the interpreter (14.0); the digits 1 to 9 follow
\* their zero. int() reads all of them.
DecimalZeros ==
    {
     48, 1632, 1776, 1984, 2406, 2534, 2662, 2790, 2918, 3046, 3174, 3302,
     3430, 3558, 3664, 3792, 3872, 4160, 4240, 6112, 6160, 6470, 6608,
     6784, 6800, 6992, 7088, 7232, 7248, 42528, 43216, 43264, 43472, 43504,
     43600, 44016, 65296, 66720, 68912, 69734, 69872, 69942, 70096, 70384,
     70736, 70864, 71248, 71360, 71472, 71904, 72016, 72784, 73040, 73120,
     92768, 92864, 93008, 120782, 120792, 120802, 120812, 120822, 123200,
     123632, 125264, 130032
    }

IsDigit(c) == \E z \in DecimalZeros : z <= c /\ c <= z + 9

DigitValue(c) == c - (CHOOSE z \in DecimalZeros : z <= c /\ c <= z + 9)

\* The digit part of an integer literal: decimal digits, with single
\* underscores between digits.
IsDigits(s) ==
    /\ s # <<>>
    /\ IsDigit(s[1])
    /\ IsDigit(s[Len(s)])
    /\ \A i \in 1..Len(s) :
          \/ IsDigit(s[i])
          \/ s[i] = ord("_") /\ IsDigit(s[i - 1]) /\ IsDigit(s[i + 1])

RECURSIVE DigitsValue(_, _)
DigitsValue(s, acc) ==
    IF s = <<>> THEN acc
    ELSE IF Head(s) = ord("_") THEN DigitsValue(Tail(s), acc)
    ELSE DigitsValue(Tail(s), BigMulLimb(acc, 10, DigitValue(Head(s))))

\* sys.get_int_max_str_digits(): the longest digit string int() reads and
\* the longest one the conversion of an int to str writes.
int_max_str_digits == 4300

\* The number of decimal digits of a number in limbs.
DecimalLen(a) ==
    IF a = <<>> THEN 1
    ELSE 3 * (Len(a) - 1)
         + (IF a[Len(a)] < 10 THEN 1 ELSE IF a[Len(a)] < 100 THEN 2 ELSE 3)

\* int(str) (worker.py:175): whitespace around an optional sign and the
\* digits; anything else, the empty string included, and more digits than
\* int_max_str_digits raise ValueError (ok = FALSE). The value is in limbs.
py_int(s) ==
    LET t == rstrip(lstrip(s))
        signed == t # <<>> /\ t[1] \in {ord("+"), ord("-")}
        body == IF signed THEN Tail(t) ELSE t
    IN  IF \/ ~IsDigits(body)
           \/ Len(SelectSeq(body, IsDigit)) > int_max_str_digits
        THEN [ok |-> FALSE, neg |-> FALSE, n |-> <<>>]
        ELSE [ok |-> TRUE,
              neg |-> t[1] = ord("-") /\ DigitsValue(body, <<>>) # <<>>,
              n |-> DigitsValue(body, <<>>)]

\* getSize(size) (worker.py:154-175): the integer its result string
\* denotes, or the exception raised by size.split(' ')[1], by unit[0], by
\* int() or by the conversion of the product to str.
getSize(sizeText) ==
    LET fields == split(sizeText, <<>>, <<>>)
    IN  IF Len(fields) < 2 \/ fields[2] = <<>>
        THEN [error |-> "IndexError", neg |-> FALSE, value |-> <<>>]
        ELSE LET number == py_int(fields[1])
                 product == BigMul(number.n, multipl(fields[2]))
             IN  IF ~number.ok \/ DecimalLen(product) > int_max_str_digits
                 THEN [error |-> "ValueError", neg |-> FALSE, value |-> <<>>]
                 ELSE [error |-> "none", neg |-> number.neg,
                       value |-> product]

RECURSIVE Pow10(_)
Pow10(k) == IF k = 0 THEN 1 ELSE 10 * Pow10(k - 1)

\* Unit strings of the extractor, and others: a first character with or
\* without a following 'B'.
UnitNames ==
    {Text(<<c>>) : c \in {"b", "k", "m", "g", "t", "K", "M", "x"}}
    \cup {Text(<<c, "B">>) : c \in {"b", "k", "m", "g", "t", "K", "M", "x"}}

\* Ways to write the integer n: str(n); with a zero before the digits; with
\* a plus sign; between a vertical tab and a tab; in fullwidth digits; with
\* an underscore after the first digit.
Spellings(n) ==
    LET sign == IF n < 0 THEN <<ord("-")>> ELSE <<>>
        digits == py_str(IF n < 0 THEN 0 - n ELSE n)
    IN  {py_str(n),
         sign \o <<ord("0")>> \o digits,
         (IF n < 0 THEN sign ELSE <<ord("+")>>) \o digits,
         <<11>> \o py_str(n) \o <<9>>,
         sign \o [i \in 1..Len(digits) |-> digits[i] - ord("0") + 65296],
         IF Len(digits) < 2 THEN py_str(n)
         ELSE sign \o <<digits[1], ord("_")>> \o Tail(digits)}

\* The size strings "<n> <unit>", with the number and the unit they are
\* made of.
SizeStrings ==
    {[n |-> n, unitName |-> u, text |-> t \o <<ord(" ")>> \o u] :
        <<n, t>> \in UNION {{<<m, x>> : x \in Spellings(m)} :
                              m \in (1 - Pow10(MaxDigits))
                                        ..(Pow10(MaxDigits) - 1)},
        u \in UnitNames}

\* Strings that are not of that form: a leading blank, no unit, an empty
\* unit, two blanks, a fraction, misplaced underscores, a sign alone, a
\* separator that int() does not strip, a superscript digit.
OddSizes ==
    {[n |-> 0, unitName |-> <<>>, text |-> t] :
        t \in {Text(<<" ", "1", "2", " ", "k", "B">>),
               Text(<<" ", "k", "B">>),
               Text(<<"1", "2">>),
               Text(<<"1", "2", " ">>),
               Text(<<"1", "2", " ", " ", "k", "B">>),
               Text(<<"1", ".", "5", " ", "M", "B">>),
               Text(<<"1", "_", "_", "0", " ", "k", "B">>),
               Text(<<"_", "1", " ", "k", "B">>),
               Text(<<"+", " ", "k", "B">>),
               <<28>> \o Text(<<"1", "2", " ", "k", "B">>),
               <<178>> \o Text(<<" ", "k", "B">>)}}

NoSizeOut == [done |-> FALSE, error |-> "none", neg |-> FALSE, value |-> <<>>]

SizeStart ==
    /\ WInit(0)
    /\ DBInit
    /\ unit = NoUnit
    /\ workOut = NoWork
    /\ size \in SizeStrings \cup OddSizes
    /\ sizeOut = NoSizeOut

ApplyGetSize ==
    /\ ~sizeOut.done
    /\ sizeOut' = [done |-> TRUE, error |-> getSize(size.text).error,
                   neg |-> getSize(size.text).neg,
                   value |-> getSize(size.text).value]
    /\ UNCHANGED <<unit, workOut, size>>
    /\ UNCHANGED <<wvars, dbvars>>

NextSize ==
    \/ ApplyGetSize

SpecSize == SizeStart /\ [][NextSize]_vars

\* Every worker process is scheduled; the coordinator sends what it sends
\* and the set of work packages is the initial one.
LiveNext ==
    \/ Send
    \/ \E w \in Workers : PollCommand(w)
    \/ \E w \in Workers : PollReturn(w)
    \/ \E w \in Workers : PausedLock(w)
    \/ \E w \in Workers : PausedGet(w)
    \/ \E w \in Workers : PausedReturn(w)
    \/ \E w \in Workers : DrainCheck(w)
    \/ \E w \in Workers : DrainGet(w)
    \/ \E w \in Workers : DrainReturn(w)
    \/ \E w \in Workers : GetWork(w)
    \/ \E w \in Workers : GetWorkReturn(w)
    \/ \E w \in Workers : DoWork(w)

LiveSpec ==
    /\ Init
    /\ [][LiveNext]_vars
    /\ \A w \in Workers : WF_vars(WorkerStep(w))

\* ------------------------------------------------------------------------
\* Properties of the worker
\* ------------------------------------------------------------------------
Last(s) == s[Len(s)]

IsKnown(c) == c \in {COMMAND_STOP, COMMAND_PAUSE, COMMAND_UNPAUSE}

InCleanup(w) == pc[w] \in {"drain_check", "drain_get", "drain_ret"}

\* The worker is in the pause branch of run_command and has not received
\* its next command: it waits for the reader lock or, holding it, for a
\* command.
Paused(w) == pc[w] \in {"paused", "paused_recv"}

InQueue(u) == \E i \in 1..Len(workq) : workq[i] = u

Held(u) == \E w \in Workers : pkg[w] = u

B(p) == IF p THEN 1 ELSE 0

\* C1: on every termination path (Stop, exhaustion, unrecognized command)
\* a finished worker has closed its connections and drained the work queue.
C1_CleanupOnEveryTermination ==
    \A w \in Workers : pc[w] = "finished" => (closed[w] /\ drained[w])

\* C2: after Stop was dispatched the connection is released, the worker
\* pulls no package for processing while it cleans up, and the cleanup
\* ends with the work queue empty, however many packages were queued.
C2_StopCleanup ==
    [][\A w \in Workers :
         (InCleanup(w) /\ Last(log[w]) = COMMAND_STOP) =>
            /\ closed[w] /\ closed'[w]
            /\ pkg'[w] = 0
            /\ (~InCleanup(w)' => workq' = <<>>)]_vars

\* C3: in every iteration the command queue is polled before the work
\* queue: a poll made while a command is pending dequeues that command
\* without touching the work queue, the command is dispatched when the poll
\* returns, and a worker pulls a package only after the poll of the same
\* iteration.
C3_CommandFirst ==
    [][\A w \in Workers :
         /\ (pc[w] = "poll_cmd" /\ pc'[w] # "poll_cmd" /\ cmdq # <<>>) =>
               /\ pc'[w] = "poll_ret"
               /\ got'[w] = Head(cmdq)
               /\ cmdq' = Tail(cmdq)
               /\ workq' = workq
               /\ pkg'[w] = 0
         /\ (pc[w] = "poll_ret" /\ pc'[w] # "poll_ret"
               /\ got[w] # "Empty") =>
               /\ log'[w] = Append(log[w], got[w])
               /\ workq' = workq
               /\ pkg'[w] = 0
         /\ (pkg[w] = 0 /\ pkg'[w] # 0) => polled[w]]_vars

\* C4: from the dispatch of Pause to the dispatch of the next command the
\* worker holds and pulls no package; while paused it leaves its position
\* only by dequeuing the head of the command queue, touching neither the
\* work queue nor the count of processed packages, so with an empty command
\* queue it stays paused; the command it dequeued is the one dispatched.
C4_PausedDoesNoWork ==
    [][\A w \in Workers :
         /\ (Paused(w) \/ pc[w] = "paused_ret") =>
               (pkg[w] = 0 /\ pkg'[w] = 0)
         /\ Paused(w) =>
               /\ log'[w] = log[w]
               /\ (cmdq = <<>> => Paused(w)')
               /\ ~Paused(w)' =>
                     /\ pc'[w] = "paused_ret"
                     /\ cmdq # <<>>
                     /\ cmdq' = Tail(cmdq)
                     /\ got'[w] = Head(cmdq)
                     /\ workq' = workq
                     /\ processed' = processed
         /\ (pc[w] = "paused_ret" /\ pc'[w] # "paused_ret") =>
               /\ log'[w] = Append(log[w], got[w])
               /\ workq' = workq
               /\ processed' = processed]_vars

C4_Witness ==
    \E w \in Workers :
        /\ pc[w] = "paused_recv"
        /\ cmdq = <<>>
        /\ workq # <<>>
        /\ sent = MaxCmds

\* C5: Unpause received by a paused worker resumes it: no cleanup, the
\* worker continues at the work queue poll, where it pulls the next
\* package if there is one and otherwise terminates.
C5_UnpauseResumes ==
    [][\A w \in Workers :
         /\ (pc[w] = "paused_ret" /\ pc'[w] # "paused_ret"
               /\ got[w] = COMMAND_UNPAUSE) =>
               /\ pc'[w] = "get_work"
               /\ closed'[w] = closed[w]
               /\ workq' = workq
         /\ (pc[w] = "get_work" /\ pc'[w] # "get_work"
               /\ log[w] # <<>> /\ Last(log[w]) = COMMAND_UNPAUSE) =>
               /\ closed'[w] = closed[w]
               /\ IF workq = <<>>
                  THEN pc'[w] \in {"work_ret", "finished"} /\ pkg'[w] = 0
                  ELSE pc'[w] = "work_ret" /\ pkg'[w] = Head(workq)
         /\ (pc[w] = "work_ret" /\ pc'[w] # "work_ret"
               /\ log[w] # <<>> /\ Last(log[w]) = COMMAND_UNPAUSE) =>
               /\ closed'[w] = closed[w]
               /\ IF pkg[w] = 0
                  THEN pc'[w] = "finished"
                  ELSE pc'[w] = "do_work" /\ pkg'[w] = pkg[w]]_vars

\* C6: after an unrecognized command the worker processes no work package.
C6_FatalCommandIsFinal ==
    \A w \in Workers :
        (\E i \in 1..Len(log[w]) : ~IsKnown(log[w][i])) => pc[w] # "do_work"

\* C7: a worker never waits for work; unless a worker is paused, every
\* worker reaches the end of run.
C7_NoBlockOnWork ==
    [](\A w \in Workers : ~Paused(w))
        => <>(\A w \in Workers : pc[w] = "finished")

C7_Witness ==
    /\ \A w \in Workers : pc[w] = "finished" /\ ~closed[w]
    /\ \A w \in Workers : \A i \in 1..Len(log[w]) : log[w][i] # COMMAND_PAUSE
    /\ \A u \in Units : processed[u] = 1

\* C8: every package put on the work queue is in exactly one place: still
\* queued, pulled by one worker, processed once, or discarded once.
C8_NoDoubleProcessing ==
    \A u \in Units :
        processed[u] + discarded[u] + B(InQueue(u)) + B(Held(u))
            = B(u <= produced)

C8_Witness ==
    /\ produced = MaxUnits
    /\ \E u \in Units : processed[u] = 1
    /\ \E u \in Units : discarded[u] = 1
    /\ \A u \in Units : processed[u] + discarded[u] = 1

\* C9: a fault in _do_work ends that package only: the worker goes on
\* to the next iteration, its connection and the queues untouched.
C9_FaultKeepsWorkerRunning ==
    [][\A w \in Workers :
         (pc[w] = "do_work" /\ pc'[w] # "do_work" /\ fault'[w] # "none") =>
            /\ pc'[w] = "poll_cmd"
            /\ closed'[w] = closed[w]
            /\ workq' = workq /\ cmdq' = cmdq
            /\ processed'[pkg[w]] = processed[pkg[w]] + 1]_vars

C9_Witness ==
    \E w \in Workers :
        /\ pc[w] = "poll_cmd"
        /\ fault[w] \in {"extractor", "hash", "insert"}
        /\ ~closed[w]
        /\ \E u \in Units : processed[u] = 1

\* ------------------------------------------------------------------------
\* Properties of insert_new_record_files
\* ------------------------------------------------------------------------
InTrace(x) == \E i \in 1..Len(dbTrace) : dbTrace[i] = x

Count(x) == Cardinality({i \in 1..Len(dbTrace) : dbTrace[i] = x})

BatchRows(b) ==
    [i \in 1..Len(b) |->
        [crawl |-> b[i].crawl, dir |-> b[i].dir, hash |-> b[i].hash]]

\* C10 as stated: whenever the insert fails, while constructing or while
\* executing, nothing of the batch is committed, the transaction is rolled
\* back and the error is raised; on success every row is committed.
C10_RollbackOnAnyFailure ==
    /\ dbResult = "raised" =>
          /\ table = before
          /\ InTrace("rollback")
    /\ dbResult = "ok" => table = before \o Stored(before, BatchRows(batch))

\* C10 amended: the insert is all-or-nothing and raises on failure; the
\* rollback is issued when the execution fails, while a failure of the
\* construction (no cursor on a closed connection, a tuple that cannot be
\* formatted) raises before anything is sent, without a rollback.
C10_AllOrNothing ==
    /\ dbResult = "raised" =>
          /\ table = before
          /\ ~InTrace("commit")
          /\ InTrace("execute") <=> InTrace("rollback")
          /\ InTrace("execute") <=>
                /\ tx # "closed"
                /\ \A i \in 1..Len(batch) : batch[i].ncols = NumColumns
    /\ dbResult = "ok" =>
          /\ table = before \o Stored(before, BatchRows(batch))
          /\ Count("execute") = 1
          /\ Count("commit") = 1
          /\ ~InTrace("rollback")
          /\ batch # <<>>
    /\ dbResult # "none" =>
          (dbResult = "raised" <=>
              \/ tx = "closed"
              \/ batch = <<>>
              \/ \E i \in 1..Len(batch) :
                    batch[i].ncols # NumColumns \/ ~batch[i].valid)

C10_Witness ==
    /\ dbResult = "raised"
    /\ Len(batch) >= 2
    /\ batch[1].ncols = NumColumns /\ batch[1].valid
    /\ ~batch[Len(batch)].valid
    /\ InTrace("rollback")
    /\ before # <<>>
    /\ table = before

\* ------------------------------------------------------------------------
\* Finality of Stop and commands received while paused
\* ------------------------------------------------------------------------
HasDispatched(w, S) == \E i \in 1..Len(log[w]) : log[w][i] \in S

\* C18: once a worker has dispatched Stop or an unrecognized command it
\* only finishes its cleanup: it never again pulls a package to process
\* it, whatever the other workers and the coordinator do.
C18_StopIsFinal ==
    \A w \in Workers :
        HasDispatched(w, Commands \ {COMMAND_PAUSE, COMMAND_UNPAUSE}) =>
            (pc[w] # "do_work" /\ pkg[w] = 0)

\* The positions in log[w] of the commands w received while paused.
ReceivedPaused(w) == {i \in 2..Len(log[w]) : log[w][i - 1] = COMMAND_PAUSE}

\* C19: the command a paused worker receives resumes it only if it is
\* Unpause; Stop and every other command, a second Pause included, make it
\* clean up and terminate: from its dispatch on the worker has closed its
\* connections, is in its cleanup or finished, and holds no package.
C19_AnythingElseIsFatal ==
    \A w \in Workers :
        \A i \in ReceivedPaused(w) :
            log[w][i] # COMMAND_UNPAUSE =>
                /\ closed[w]
                /\ InCleanup(w) \/ pc[w] = "finished"
                /\ pkg[w] = 0

\* ------------------------------------------------------------------------
\* Properties of _do_work
\* ------------------------------------------------------------------------
IsValid(result) == result.fields = Mandatory

\* The result at position j is valid and its hash or its insert fails.
Faults(j) ==
    /\ IsValid(unit.results[j])
    /\ \/ ~unit.results[j].readable
       \/ ~unit.results[j].insertable
       \/ unit.poolClosed

\* C11: the records of a package are persisted by one insert call, not
\* one per file, so a fault in the middle of the package leaves no
\* record of it inserted.
C11_OneInsertPerUnit ==
    workOut.done =>
        /\ workOut.calls <= 1
        /\ workOut.fault # "none" => workOut.rows = <<>>

\* C12: a result that lacks one of Directory, FileName, FileType, FileSize
\* is never inserted, and it does not end the package: every valid result
\* that no fault precedes is inserted, in the order of the results.
C12_SkipInvalidOnly ==
    workOut.done =>
        /\ \A k \in 1..Len(workOut.rows) :
              /\ workOut.rows[k] \in 1..Len(unit.results)
              /\ IsValid(unit.results[workOut.rows[k]])
              /\ k > 1 => workOut.rows[k - 1] < workOut.rows[k]
        /\ \A i \in 1..Len(unit.results) :
              (/\ IsValid(unit.results[i])
               /\ \A j \in 1..i : ~Faults(j))
                 => \E k \in 1..Len(workOut.rows) : workOut.rows[k] = i

C12_Witness ==
    /\ workOut.done
    /\ Len(unit.results) = UnitSize
    /\ ~IsValid(unit.results[1])
    /\ IsValid(unit.results[UnitSize])
    /\ workOut.rows # <<>>
    /\ workOut.rows[Len(workOut.rows)] = UnitSize
    /\ workOut.fault = "none"

\* ------------------------------------------------------------------------
\* Properties of getSize
\* ------------------------------------------------------------------------
\* The exponent the unit stands for.
UnitExponent(unitName) ==
    CASE unitName[1] = ord("b") -> 0
      [] unitName[1] = ord("k") -> 1
      [] unitName[1] = ord("m") -> 2
      [] unitName[1] = ord("g") -> 3
      [] unitName[1] = ord("t") -> 4
      [] OTHER -> 0

RECURSIVE Pow1000(_)
Pow1000(k) == IF k = 0 THEN ToBig(1) ELSE BigMul(Pow1000(k - 1), ToBig(1000))

\* C17: for the size string "<n> <unit>", n an integer of either sign in
\* any spelling int() reads, getSize returns n * 1000^k, with k = 0, 1, 2,
\* 3, 4 for a unit that starts with b, k, m, g, t and n * 1 for every
\* other unit.
C17_SizeBase1000 ==
    (sizeOut.done /\ size.unitName # <<>>) =>
        /\ sizeOut.error = "none"
        /\ sizeOut.neg = (size.n < 0)
        /\ sizeOut.value =
              BigMul(ToBig(IF size.n < 0 THEN 0 - size.n ELSE size.n),
                     Pow1000(UnitExponent(size.unitName)))

\* The largest negative number, written in fullwidth digits, in terabytes.
C17_Witness ==
    /\ sizeOut.done
    /\ sizeOut.error = "none"
    /\ size.unitName = Text(<<"t", "B">>)
    /\ size.n = 1 - Pow10(MaxDigits)
    /\ size.text[2] = 65296 + 9
    /\ sizeOut.neg
    /\ sizeOut.value = <<0, 0, 0, 0, Pow10(MaxDigits) - 1>>

\* ------------------------------------------------------------------------
\* Deletion candidates and soft deletion
\* ------------------------------------------------------------------------

\* The crawl generations stored for a directory.
Gens(path) ==
    {table[i].crawl : i \in {j \in 1..Len(table) : table[j].dir = path}}

\* The generation with exactly one later generation of the directory.
SecondHighest(path) ==
    {g \in Gens(path) : Cardinality({h \in Gens(path) : h > g}) = 1}

\* The ids the deletion step is to receive for the latest check.
Expected(path, hashes) ==
    {table[i].id :
        i \in {j \in 1..Len(table) : /\ table[j].dir = path
                                     /\ table[j].crawl \in SecondHighest(path)
                                     /\ table[j].hash \in hashes}}

\* C13: a check_directory that fetched the history and returned gives exactly
\* the ids of the directory's records of the second-highest crawl id whose
\* hash is in current_hashes, each once; records of the highest or of an
\* older generation are never returned.
C13_SecondHighestOnly ==
    (chk.outcome = "returned" /\ chk.fetched) =>
        /\ Elems(chk.ret) = Expected(chk.path, chk.hashes)
        /\ Cardinality(Elems(chk.ret)) = Len(chk.ret)

\* Three generations are stored, the oldest has a record whose hash is in
\* current_hashes, and the check returned a record of the middle one.
C13_Witness ==
    /\ chk.outcome = "returned"
    /\ chk.fetched
    /\ Cardinality(Gens(chk.path)) = 3
    /\ chk.ret # <<>>
    /\ \E i \in 1..Len(table) :
           /\ table[i].dir = chk.path
           /\ table[i].hash \in chk.hashes
           /\ \A g \in Gens(chk.path) : table[i].crawl <= g
           /\ table[i].id \notin Elems(chk.ret)

\* C14: with exactly one generation stored for the directory, a
\* check_directory that fetched the history returns the empty list whatever
\* current_hashes is.
C14_FirstCrawlNoCandidates ==
    (chk.outcome = "returned" /\ chk.fetched
        /\ Cardinality(Gens(chk.path)) = 1) =>
        chk.ret = <<>>

\* One generation, and a stored record of it has a hash in current_hashes.
C14_Witness ==
    /\ chk.outcome = "returned"
    /\ chk.fetched
    /\ Cardinality(Gens(chk.path)) = 1
    /\ chk.ret = <<>>
    /\ \E i \in 1..Len(table) :
           table[i].dir = chk.path /\ table[i].hash \in chk.hashes

\* C15: a stored record keeps its id, crawl, directory and hash; its
\* (deleted, deleted_time) changes only from (false, null) to (true, time),
\* and a record marked deleted is never written again.
C15_DeletedAtMostOnce ==
    [][\A i \in 1..Len(table) :
          /\ i <= Len(table')
          /\ table'[i].id = table[i].id
          /\ table'[i].crawl = table[i].crawl
          /\ table'[i].dir = table[i].dir
          /\ table'[i].hash = table[i].hash
          /\ table[i].deleted => table'[i] = table[i]
          /\ (~table[i].deleted /\ table'[i] # table[i]) =>
                (table'[i].deleted /\ table'[i].time > 0)]_vars

\* C16: set_deleted always returns normally, never propagating a failure;
\* with no ids it issues no query and changes nothing; when the update fails
\* it rolls back and the table is as before; when it succeeds one statement
\* marked every targeted record with the same time and left the others alone.
C16_SetDeleted ==
    (del.outcome # "none") =>
        /\ del.outcome = "returned"
        /\ (del.ids = <<>>) => (dbTrace = <<>> /\ table = before)
        /\ (del.ids # <<>> /\ ~del.accepted) =>
              /\ table = before
              /\ Count("execute") = 1
              /\ InTrace("rollback")
              /\ ~InTrace("commit")
              /\ tx = "idle"
        /\ del.accepted =>
              /\ del.ids # <<>>
              /\ Count("execute") = 1
              /\ InTrace("commit")
              /\ Len(table) = Len(before)
              /\ \A i \in 1..Len(table) :
                    IF before[i].id \in Elems(del.ids)
                    THEN table[i] = [before[i] EXCEPT !.deleted = TRUE,
                                                      !.time = del.stamp]
                    ELSE table[i] = before[i]

\* C20: check_directory never raises, and returns the empty list when the
\* directory has no stored record or when the history query failed.
C20_CheckNeverRaises ==
    /\ chk.outcome \in {"none", "returned"}
    /\ (chk.outcome = "returned" /\ (~chk.fetched \/ Gens(chk.path) = {})) =>
          chk.ret = <<>>

====
